---- MODULE Spec2Model ----
(***************************************************************************)
(* M-ary Huffman coding visualizer (src/src/App.tsx, src/unnamed/part_000). *)
(* Strings are sequences of one-character strings, so that startsWith,      *)
(* localeCompare, toString and concatenation are computed, not assumed.     *)
(* A Map is the sequence of its [key, value] entries in insertion order.    *)
(* Numbers shown with two decimals (the ratio) are kept in hundredths.      *)
(***************************************************************************)
EXTENDS Integers, Sequences, FiniteSets, TLC

\* ------------------------------------------------------------------ bounds
\* Longest text a user types (texts drawn freely over Alphabet).
MaxLen == 2
\* Largest per-symbol count in the run-shaped texts ("aaabbc...").
MaxFreq == 2
\* Largest value delivered by the M input control.
MaxM == 5
\* Iterations of the merge loop followed when the loop does not terminate.
MaxIter == 3

\* ------------------------------------------------------------- strings
\* A character is one code point, as `for (const char of text)` yields them.
\* "U+1F600" stands for the one code point outside the basic plane (an
\* emoji), which takes two UTF-16 code units.
Alphabet == {"a", "b", "c", "z", "U+1F600"}
AlphabetOrder == <<"U+1F600", "a", "b", "c", "z">>

\* Collation order of the characters that occur in node names (symbols sort
\* before digits, digits before letters).
Collation ==
  <<"U+1F600",
    "0", "1", "2", "3", "4", "5", "6", "7", "8", "9",
    "a", "U+00C5", "b", "c", "d", "e", "i", "l", "m", "n", "r", "t", "u", "y", "z">>

\* UTF-16 code units of a character.
CodeUnits(c) == IF c = "U+1F600" THEN 2 ELSE 1

\* String.prototype.length: the number of UTF-16 code units.
RECURSIVE jsLength(_)
jsLength(str) ==
  IF str = <<>> THEN 0 ELSE CodeUnits(Head(str)) + jsLength(Tail(str))

\* "U+212B" (ANGSTROM SIGN) is canonically equivalent to "U+00C5" (A WITH
\* RING ABOVE): localeCompare treats the two code points as equal.
CanonicalOf(c) == IF c = "U+212B" THEN "U+00C5" ELSE c

CharRank(c) == CHOOSE i \in 1..Len(Collation) : Collation[i] = CanonicalOf(c)

DigitChars == <<"0", "1", "2", "3", "4", "5", "6", "7", "8", "9">>

InternalName == <<"i", "n", "t", "e", "r", "n", "a", "l">>
DummyWord == <<"d", "u", "m", "m", "y">>

\* The two builds of the application differ in the name given to a padding node.
Builds == {"App", "part_000"}
DummyPrefix(b) == IF b = "App" THEN DummyWord ELSE <<"z">>

Min(a, b) == IF a < b THEN a ELSE b

\* String.prototype.localeCompare on lower-case letters and digits: -1, 0 or 1.
RECURSIVE localeCompare(_, _)
localeCompare(a, b) ==
  IF a = <<>> /\ b = <<>> THEN 0
  ELSE IF a = <<>> THEN -1
  ELSE IF b = <<>> THEN 1
  ELSE IF CharRank(Head(a)) < CharRank(Head(b)) THEN -1
  ELSE IF CharRank(Head(a)) > CharRank(Head(b)) THEN 1
  ELSE localeCompare(Tail(a), Tail(b))

\* String.prototype.startsWith
startsWith(s, prefix) ==
  /\ Len(s) >= Len(prefix)
  /\ SubSeq(s, 1, Len(prefix)) = prefix

\* Variant: every index rendered as "0".
toString_zero(i) == <<"0">>

\* Number.prototype.toString for a non-negative integer (decimal digits).
RECURSIVE toString(_)
toString(i) ==
  IF i < 10 THEN <<DigitChars[i + 1]>>
  ELSE toString(i \div 10) \o <<DigitChars[(i % 10) + 1]>>

\* ---------------------------------------------------------------- Map
MapHas(map, k) == \E i \in 1..Len(map) : map[i][1] = k

MapGet(map, k, undefined) ==
  IF MapHas(map, k)
  THEN map[CHOOSE i \in 1..Len(map) : map[i][1] = k][2]
  ELSE undefined

\* Map.prototype.set: an existing key keeps its place, a new key is appended.
MapSet(map, k, v) ==
  IF MapHas(map, k)
  THEN [i \in 1..Len(map) |-> IF map[i][1] = k THEN <<k, v>> ELSE map[i]]
  ELSE Append(map, <<k, v>>)

MapKeys(map) == {map[i][1] : i \in 1..Len(map)}

\* --------------------------------------------------------- HuffmanTreeNode
HuffmanTreeNode(character, frequency) ==
  [data |-> character, freq |-> frequency, children |-> <<>>]

\* null, as returned by generateMaryTree for an empty frequency table.
NullNode == [data |-> <<>>, freq |-> 0, children |-> <<>>]

\* ----------------------------------------------------------- PriorityQueue
\* The comparator of PriorityQueue.sort: negative, zero or positive.
\* Variant: the comparison ignores the weights.
compare_byName(a, b) == localeCompare(a.data, b.data)

compare(a, b) ==
  IF a.freq # b.freq THEN a.freq - b.freq
  ELSE localeCompare(a.data, b.data)

\* Array.prototype.sort is stable: an element goes after the elements that
\* do not compare greater than it.
\* Variant: an element goes before the elements it compares equal to.
RECURSIVE insertSorted_unstable(_, _)
insertSorted_unstable(sorted, node) ==
  IF sorted = <<>> THEN <<node>>
  ELSE IF compare(sorted[Len(sorted)], node) < 0 THEN Append(sorted, node)
  ELSE Append(insertSorted_unstable(SubSeq(sorted, 1, Len(sorted) - 1), node),
              sorted[Len(sorted)])

RECURSIVE insertSorted(_, _)
insertSorted(sorted, node) ==
  IF sorted = <<>> THEN <<node>>
  ELSE IF compare(sorted[Len(sorted)], node) <= 0 THEN Append(sorted, node)
  ELSE Append(insertSorted(SubSeq(sorted, 1, Len(sorted) - 1), node),
              sorted[Len(sorted)])

RECURSIVE sort(_)
sort(nodes) ==
  IF nodes = <<>> THEN <<>>
  ELSE insertSorted(sort(SubSeq(nodes, 1, Len(nodes) - 1)), nodes[Len(nodes)])

\* Variant: push without sort.
enqueue_noSort(nodes, node) == Append(nodes, node)

\* enqueue(node) { this.nodes.push(node); this.sort(); }
enqueue(nodes, node) == sort(Append(nodes, node))

\* dequeue returns nodes.shift(); the queue that remains is the tail.
dequeued(nodes) == IF nodes = <<>> THEN NullNode ELSE Head(nodes)
\* Variant: the dequeued node stays in the queue.
afterDequeue_keep(nodes) == nodes

afterDequeue(nodes) == IF nodes = <<>> THEN <<>> ELSE Tail(nodes)

\* ------------------------------------------------- calculateRequiredDummies
\* A JavaScript number that may be NaN: <<>> is NaN, <<n>> is the number n.
NaN == <<>>
Num(n) == <<n>>

Abs(n) == IF n < 0 THEN -n ELSE n

\* a % b for a >= 0: the sign follows the dividend, and a % 0 is NaN.
jsRemainder(a, b) == IF b = 0 THEN NaN ELSE Num(a % Abs(b))

\* Variants: no padding at all, and the remainder taken of symbolCount.
calculateRequiredDummies_none(symbolCount, m) == Num(0)

calculateRequiredDummies_offByOne(symbolCount, m) ==
  LET remainder == jsRemainder(symbolCount, m - 1) IN
    IF remainder = NaN THEN NaN
    ELSE IF remainder[1] = 0 THEN Num(0)
    ELSE Num(m - 1 - remainder[1])

calculateRequiredDummies(symbolCount, m) ==
  LET remainder == jsRemainder(symbolCount - 1, m - 1) IN
    IF remainder = NaN THEN NaN          \* NaN === 0 is false; m - 1 - NaN
    ELSE IF remainder[1] = 0 THEN Num(0)
    ELSE Num(m - 1 - remainder[1])

\* ---------------------------------------------------------- generateMaryTree
\* for (const [char, freq] of frequencies.entries()) pq.enqueue(new Node(char, freq))
RECURSIVE enqueueLeaves(_, _, _)
enqueueLeaves(nodes, freqMap, i) ==
  IF i > Len(freqMap) THEN nodes
  ELSE enqueueLeaves(enqueue(nodes, HuffmanTreeNode(freqMap[i][1], freqMap[i][2])),
                     freqMap, i + 1)

\* for (let i = 0; i < dummiesNeeded; i++) pq.enqueue(new Node(prefix + i, 0));
\* i < NaN is false.
RECURSIVE enqueueDummies(_, _, _, _)
enqueueDummies(nodes, prefix, i, dummiesNeeded) ==
  IF dummiesNeeded = NaN \/ ~(i < dummiesNeeded[1]) THEN nodes
  ELSE enqueueDummies(enqueue(nodes, HuffmanTreeNode(prefix \o toString(i), 0)),
                      prefix, i + 1, dummiesNeeded)

\* The queue when the while loop is first tested (two or more real leaves).
initialQueue(b, freqMap, m) ==
  LET leaves == enqueueLeaves(<<>>, freqMap, 1) IN
    enqueueDummies(leaves, DummyPrefix(b), 0,
                   calculateRequiredDummies(Len(leaves), m))

\* Variant: one node taken per merge.
numNodesOf_one(m, size) == Min(1, size)

\* const numNodes = Math.min(m, pq.size)
numNodesOf(m, size) == Min(m, size)

\* Variant: children.unshift(child) in place of children.push(child).
RECURSIVE takeChildren_prepend(_, _, _, _)
takeChildren_prepend(nodes, newNode, i, numNodes) ==
  IF ~(i < numNodes) THEN [nodes |-> nodes, newNode |-> newNode]
  ELSE LET child == dequeued(nodes) IN
    takeChildren_prepend(afterDequeue(nodes),
                 IF child # NullNode
                 THEN [newNode EXCEPT !.children = <<child>> \o @,
                                      !.freq = @ + child.freq]
                 ELSE newNode,
                 i + 1, numNodes)

\* Variant: totalFreq = child.freq in place of totalFreq += child.freq.
RECURSIVE takeChildren_lastWeight(_, _, _, _)
takeChildren_lastWeight(nodes, newNode, i, numNodes) ==
  IF ~(i < numNodes) THEN [nodes |-> nodes, newNode |-> newNode]
  ELSE LET child == dequeued(nodes) IN
    takeChildren_lastWeight(afterDequeue(nodes),
                 IF child # NullNode
                 THEN [newNode EXCEPT !.children = Append(@, child),
                                      !.freq = child.freq]
                 ELSE newNode,
                 i + 1, numNodes)

\* for (let i = 0; i < numNodes; i++) { child = pq.dequeue(); if (child) ... }
RECURSIVE takeChildren(_, _, _, _)
takeChildren(nodes, newNode, i, numNodes) ==
  IF ~(i < numNodes) THEN [nodes |-> nodes, newNode |-> newNode]
  ELSE LET child == dequeued(nodes) IN
    takeChildren(afterDequeue(nodes),
                 IF child # NullNode
                 THEN [newNode EXCEPT !.children = Append(@, child),
                                      !.freq = @ + child.freq]
                 ELSE newNode,
                 i + 1, numNodes)

\* One iteration of the while loop: the queue after it.
mergeOnce(nodes, m) ==
  LET numNodes == numNodesOf(m, Len(nodes))
      taken == takeChildren(nodes, HuffmanTreeNode(InternalName, 0), 0, numNodes)
  IN enqueue(taken.nodes, taken.newNode)

\* while (pq.size > 1) { ... } return pq.dequeue(), for m >= 2.
RECURSIVE mergeAll(_, _)
mergeAll(nodes, m) ==
  IF Len(nodes) > 1 THEN mergeAll(mergeOnce(nodes, m), m) ELSE dequeued(nodes)

\* generateMaryTree as a whole (it returns for m >= 2 only).
generateMaryTree(b, freqMap, m) ==
  LET leaves == enqueueLeaves(<<>>, freqMap, 1) IN
    IF Len(leaves) = 0 THEN NullNode
    ELSE IF Len(leaves) = 1 THEN dequeued(leaves)
    ELSE mergeAll(initialQueue(b, freqMap, m), m)

\* ------------------------------------------------------------ generateCodes
isRealLeaf(node) ==
  node.data # InternalName /\ ~startsWith(node.data, DummyWord)

\* Variant: no fallback for the empty path.
leafCode_noFallback(currentCode) == currentCode

\* currentCode || "0"
leafCode(currentCode) == IF currentCode = <<>> THEN <<"0">> ELSE currentCode

RECURSIVE generateCodes(_, _, _)
RECURSIVE forEachChild(_, _, _, _)
generateCodes(node, currentCode, codes) ==
  IF node = NullNode THEN codes
  ELSE IF isRealLeaf(node)
    THEN MapSet(codes, node.data, leafCode(currentCode))
  ELSE forEachChild(node.children, 0, currentCode, codes)

forEachChild(children, index, currentCode, codes) ==
  IF index >= Len(children) THEN codes
  ELSE forEachChild(children, index + 1, currentCode,
                    generateCodes(children[index + 1],
                                  currentCode \o toString(index), codes))

\* ------------------------------------------------------------------- encode
\* for (const char of text) freq.set(char, (freq.get(char) || 0) + 1)
RECURSIVE calculateFrequencies(_)
calculateFrequencies(text) ==
  IF text = <<>> THEN <<>>
  ELSE LET freq == calculateFrequencies(SubSeq(text, 1, Len(text) - 1))
           char == <<text[Len(text)]>>
       IN MapSet(freq, char, MapGet(freq, char, 0) + 1)

\* Variant: each code put in front of the payload built so far.
RECURSIVE encodeText_prepend(_, _)
encodeText_prepend(text, codes) ==
  IF text = <<>> THEN <<>>
  ELSE encodeText_prepend(Tail(text), codes) \o MapGet(codes, <<Head(text)>>, <<>>)

\* for (const char of text) { code = codes.get(char); if (code) encoded += code }
RECURSIVE encodeText(_, _)
encodeText(text, codes) ==
  IF text = <<>> THEN <<>>
  ELSE MapGet(codes, <<Head(text)>>, <<>>) \o encodeText(Tail(text), codes)

\* Number(x.toFixed(2)) for x = num / den * 100, in hundredths (half away from 0).
toFixed2(num, den) ==
  LET mag == (Abs(num) * 20000 + den) \div (2 * den) IN
    IF num < 0 THEN -mag ELSE mag

ratioOf(textLength, encodedLength) ==
  LET originalBits == textLength * 8
      compressedBits == encodedLength
  IN toFixed2(originalBits - compressedBits, originalBits)

\* The statistics panel: {inputText.length * 8} and {encodedText.length}.
originalSize(input) == jsLength(input) * 8
compressedSize(encoded) == jsLength(encoded)

\* -------------------------------------------------------------------- state
VARIABLES
  build,             \* which build of the application runs
  inputText,         \* useState("aabbbccccc")
  mValue,            \* useState(3)
  encodedText,       \* useState("")
  compressionRatio,  \* useState(0), in hundredths
  huffmanCodes,      \* useState(new Map())
  frequencies,       \* useState(new Map())
  effectPending,     \* a dependency of the effect changed since it last ran
  pc,                \* "idle", or the position inside a running encode call
  text,              \* encode's argument text
  m,                 \* encode's argument m
  pq,                \* generateMaryTree's queue (PriorityQueue.nodes)
  root,              \* generateMaryTree's result
  iter,              \* iterations of the merge loop so far
  caller,            \* the handler that runs encode: "effect" or "onload"
  reader,            \* the pending FileReader with its onload closure, if any
  compressedFile     \* useState<Blob | null>(null): the exported record

appVars == <<inputText, mValue, encodedText, compressionRatio, huffmanCodes,
             frequencies>>
callVars == <<pc, text, m, pq, root, iter, caller>>
uploadVars == <<reader, compressedFile>>
vars == <<build, inputText, mValue, encodedText, compressionRatio, huffmanCodes,
          frequencies, effectPending, pc, text, m, pq, root, iter, caller,
          reader, compressedFile>>

\* An absent value (null, no pending reader) is <<>>; a present one is <<v>>.
None == <<>>
Some(v) == <<v>>

InitialText == <<"a", "a", "b", "b", "b", "c", "c", "c", "c", "c">>
InitialM == 3

NoCall ==
  /\ pc = "idle"
  /\ text = <<>>
  /\ m = 0
  /\ pq = <<>>
  /\ root = NullNode
  /\ iter = 0
  /\ caller = "effect"

NoUpload ==
  /\ reader = None
  /\ compressedFile = None

Init ==
  /\ build \in Builds
  /\ inputText = InitialText
  /\ mValue = InitialM
  /\ encodedText = <<>>
  /\ compressionRatio = 0
  /\ huffmanCodes = <<>>
  /\ frequencies = <<>>
  /\ effectPending = TRUE
  /\ NoCall
  /\ NoUpload

\* ------------------------------------------------------------------ actions
\* useEffect -> encode(inputText, mValue) with an empty text: `return ""`,
\* then setEncodedText("").
EffectEmpty ==
  /\ pc = "idle" /\ effectPending
  /\ inputText = <<>>
  /\ encodedText' = <<>>
  /\ effectPending' = FALSE
  /\ UNCHANGED <<build, inputText, mValue, compressionRatio, huffmanCodes,
                 frequencies, callVars, uploadVars>>

\* useEffect -> encode(inputText, mValue) up to the first test of the while
\* loop of generateMaryTree (or its early return for 0 or 1 symbols).
BeginEncode(t, mArg) ==
  /\ text' = t
  /\ m' = mArg
  /\ iter' = 0
  /\ LET freq == calculateFrequencies(t)
         leaves == enqueueLeaves(<<>>, freq, 1)
     IN IF Len(leaves) = 0
        THEN /\ root' = NullNode /\ pq' = leaves /\ pc' = "ret"
        ELSE IF Len(leaves) = 1
        THEN /\ root' = dequeued(leaves) /\ pq' = afterDequeue(leaves)
             /\ pc' = "ret"
        ELSE /\ root' = NullNode
             /\ pq' = initialQueue(build, freq, mArg)
             /\ pc' = "loop"

EffectBegin ==
  /\ pc = "idle" /\ effectPending
  /\ inputText # <<>>
  /\ effectPending' = FALSE
  /\ caller' = "effect"
  /\ BeginEncode(inputText, mValue)
  /\ UNCHANGED <<build, appVars, uploadVars>>

\* One iteration of `while (pq.size > 1)`.
MergeStep ==
  /\ pc = "loop"
  /\ Len(pq) > 1
  /\ (m < 2 => iter < MaxIter)
  /\ pq' = mergeOnce(pq, m)
  /\ iter' = iter + 1
  /\ UNCHANGED <<build, appVars, effectPending, pc, text, m, root, caller,
                 uploadVars>>

\* The loop test fails: `return pq.dequeue()!`.
LoopExit ==
  /\ pc = "loop"
  /\ ~(Len(pq) > 1)
  /\ root' = dequeued(pq)
  /\ pq' = afterDequeue(pq)
  /\ pc' = "ret"
  /\ UNCHANGED <<build, appVars, effectPending, text, m, iter, caller,
                 uploadVars>>

\* The rest of encode after generateMaryTree returned, and the effect's
\* setEncodedText: the state updates of the whole handler are committed.
\* encode from `const codes = new Map()` to `return encoded`, and the
\* caller's setEncodedText(encoded).
FinishEncode ==
  /\ LET freq == calculateFrequencies(text)
         codes == generateCodes(root, <<>>, <<>>)
         encoded == encodeText(text, codes)
     IN /\ frequencies' = freq
        /\ huffmanCodes' = codes
        /\ compressionRatio' = ratioOf(jsLength(text), jsLength(encoded))
        /\ encodedText' = encoded
  /\ pc' = "idle"
  /\ text' = <<>>
  /\ m' = 0
  /\ pq' = <<>>
  /\ root' = NullNode
  /\ iter' = 0
  /\ caller' = "effect"

EncodeFinish ==
  /\ pc = "ret"
  /\ caller = "effect"
  /\ FinishEncode
  /\ UNCHANGED <<build, inputText, mValue, effectPending, uploadVars>>

Quiet == pc = "idle" /\ ~effectPending

\* onChange of the text input: a character typed at the end.
TypeChar(c) ==
  /\ Quiet
  /\ Len(inputText) < MaxLen
  /\ inputText' = Append(inputText, c)
  /\ effectPending' = TRUE
  /\ UNCHANGED <<build, mValue, encodedText, compressionRatio, huffmanCodes,
                 frequencies, callVars, uploadVars>>

\* onChange of the text input: the last character deleted.
Backspace ==
  /\ Quiet
  /\ inputText # <<>>
  /\ inputText' = SubSeq(inputText, 1, Len(inputText) - 1)
  /\ effectPending' = TRUE
  /\ UNCHANGED <<build, mValue, encodedText, compressionRatio, huffmanCodes,
                 frequencies, callVars, uploadVars>>

\* onChange of the text input: everything selected and deleted.
ClearText ==
  /\ Quiet
  /\ inputText # <<>>
  /\ inputText' = <<>>
  /\ effectPending' = TRUE
  /\ UNCHANGED <<build, mValue, encodedText, compressionRatio, huffmanCodes,
                 frequencies, callVars, uploadVars>>

\* onChange of the M input: setMValue(Number(e.target.value)). min and max
\* bound the spinner only; a typed value (or "" -> 0) is delivered as is.
MValues == 0..MaxM

\* part_000 replaces the number input by one button per value.
ButtonValues == {2, 3, 4, 5}

MValuesOf(b) == IF b = "App" THEN MValues ELSE ButtonValues

SetMValue(v) ==
  /\ Quiet
  /\ v # mValue
  /\ mValue' = v
  /\ effectPending' = TRUE
  /\ UNCHANGED <<build, inputText, encodedText, compressionRatio, huffmanCodes,
                 frequencies, callVars, uploadVars>>

\* ------------------------------------------------------------- file upload
\* The files a user uploads (part_000 only).
Files ==
  { [name |-> "empty.txt", content |-> <<>>],
    [name |-> "zc.txt", content |-> <<"z", "c">>],
    [name |-> "abcza.txt", content |-> <<"a", "b", "c", "z", "a">>] }

FileContent(name) == (CHOOSE f \in Files : f.name = name).content

\* handleFileUpload: a FileReader is started; its onload callback closes over
\* mValue and huffmanCodes of the render the handler belongs to.
Upload(f) ==
  /\ build = "part_000"
  /\ Quiet
  /\ reader = None
  /\ reader' = Some([file |-> f.name, text |-> f.content, mValue |-> mValue,
                     huffmanCodes |-> huffmanCodes])
  /\ UNCHANGED <<build, appVars, effectPending, callVars, compressedFile>>

\* The record put in the Blob by reader.onload.
compressionData(closure, encoded) ==
  [mValue |-> closure.mValue,
   huffmanCodes |-> closure.huffmanCodes,
   encodedData |-> encoded,
   originalFileName |-> closure.file]

\* reader.onload for an empty file: setInputText(""), encode returns "",
\* setEncodedText(""), setCompressedFile(blob).
OnLoadEmpty ==
  /\ Quiet
  /\ reader # None
  /\ reader[1].text = <<>>
  /\ inputText' = <<>>
  /\ encodedText' = <<>>
  /\ compressedFile' = Some(compressionData(reader[1], <<>>))
  /\ effectPending' = (inputText # <<>>)
  /\ reader' = None
  /\ UNCHANGED <<build, mValue, compressionRatio, huffmanCodes, frequencies,
                 callVars>>

\* reader.onload: setInputText(text), then encode(text, mValue) up to the
\* while loop of generateMaryTree.
OnLoadBegin ==
  /\ Quiet
  /\ reader # None
  /\ reader[1].text # <<>>
  /\ caller' = "onload"
  /\ BeginEncode(reader[1].text, reader[1].mValue)
  /\ UNCHANGED <<build, appVars, effectPending, uploadVars>>

\* reader.onload after encode returned: setEncodedText(encoded) and
\* setCompressedFile(blob); the updates of the callback are committed, and
\* the effect runs again when inputText changed.
OnLoadFinish ==
  /\ pc = "ret"
  /\ caller = "onload"
  /\ FinishEncode
  /\ inputText' = reader[1].text
  /\ compressedFile' =
       Some(compressionData(reader[1],
                            encodeText(text, generateCodes(root, <<>>, <<>>))))
  /\ effectPending' = (reader[1].text # inputText)
  /\ reader' = None
  /\ UNCHANGED <<build, mValue>>

Next ==
  \/ EffectEmpty
  \/ EffectBegin
  \/ MergeStep
  \/ LoopExit
  \/ EncodeFinish
  \/ \E c \in Alphabet : TypeChar(c)
  \/ Backspace
  \/ ClearText
  \/ \E v \in MValuesOf(build) : SetMValue(v)

Spec == Init /\ [][Next]_vars

\* The build with the file upload: uploads, the M buttons and clearing the
\* text, with FileReader callbacks arriving between any two events.
InitUpload == Init /\ build = "part_000"

NextUpload ==
  \/ EffectEmpty
  \/ EffectBegin
  \/ MergeStep
  \/ LoopExit
  \/ EncodeFinish
  \/ ClearText
  \/ \E v \in ButtonValues : SetMValue(v)
  \/ \E f \in Files : Upload(f)
  \/ OnLoadEmpty
  \/ OnLoadBegin
  \/ OnLoadFinish

SpecUpload == InitUpload /\ [][NextUpload]_vars

\* -------------------------------------------------- the codec on its inputs
\* Texts of up to MaxLen characters, and run-shaped texts "a..ab..bc..c.."
\* with up to MaxFreq of each symbol.
RECURSIVE SeqsUpTo(_)
SeqsUpTo(n) ==
  IF n = 0 THEN {<<>>}
  ELSE LET shorter == SeqsUpTo(n - 1) IN
    shorter \cup {Append(s, c) : s \in {t \in shorter : Len(t) = n - 1}, c \in Alphabet}

RECURSIVE repeat(_, _)
repeat(c, n) == IF n = 0 THEN <<>> ELSE <<c>> \o repeat(c, n - 1)

RECURSIVE runText(_, _, _)
runText(counts, order, i) ==
  IF i > Len(order) THEN <<>>
  ELSE repeat(order[i], counts[order[i]]) \o runText(counts, order, i + 1)

RunTexts ==
  {runText(counts, AlphabetOrder, 1) : counts \in [Alphabet -> 0..MaxFreq]}

CodecTexts == SeqsUpTo(MaxLen) \cup RunTexts

InitCodec ==
  /\ build \in Builds
  /\ inputText \in CodecTexts
  /\ mValue \in MValuesOf(build)
  /\ encodedText = <<>>
  /\ compressionRatio = 0
  /\ huffmanCodes = <<>>
  /\ frequencies = <<>>
  /\ effectPending = TRUE
  /\ NoCall
  /\ NoUpload

NextCodec ==
  \/ EffectEmpty
  \/ EffectBegin
  \/ MergeStep
  \/ LoopExit
  \/ EncodeFinish

SpecCodec == InitCodec /\ [][NextCodec]_vars

\* ------------------------------------ the codec on rearrangements of a text
\* Texts of up to MaxPermLen characters over letters that collate apart and
\* two code points that collate equal.
MaxPermLen == 3

PermAlphabet == {"a", "b", "U+00C5", "U+212B"}

RECURSIVE PermTextsUpTo(_)
PermTextsUpTo(n) ==
  IF n = 0 THEN {<<>>}
  ELSE LET shorter == PermTextsUpTo(n - 1) IN
    shorter \cup {Append(s, c) : s \in {t \in shorter : Len(t) = n - 1},
                                 c \in PermAlphabet}

InitPerm ==
  /\ build \in Builds
  /\ inputText \in PermTextsUpTo(MaxPermLen)
  /\ mValue \in MValuesOf(build)
  /\ encodedText = <<>>
  /\ compressionRatio = 0
  /\ huffmanCodes = <<>>
  /\ frequencies = <<>>
  /\ effectPending = TRUE
  /\ NoCall
  /\ NoUpload

SpecPerm == InitPerm /\ [][NextCodec]_vars

\* ------------------------------------------- the PriorityQueue on its own
\* Any sequence of enqueue and dequeue calls on one PriorityQueue: pq is its
\* nodes array and root is the node the last dequeue call returned.
MaxQueue == 3

QueueItems ==
  {HuffmanTreeNode(data, freq) :
     data \in {<<"a">>, <<"b">>, InternalName, DummyWord \o toString(0)},
     freq \in 0..MaxFreq}

QueueEnqueue(node) ==
  /\ pc = "queue"
  /\ Len(pq) < MaxQueue
  /\ pq' = enqueue(pq, node)
  /\ UNCHANGED <<build, appVars, effectPending, pc, text, m, root, iter,
                 caller, uploadVars>>

QueueDequeue ==
  /\ pc = "queue"
  /\ root' = dequeued(pq)
  /\ pq' = afterDequeue(pq)
  /\ UNCHANGED <<build, appVars, effectPending, pc, text, m, iter, caller,
                 uploadVars>>

InitQueue ==
  /\ build = "App"
  /\ inputText = <<>>
  /\ mValue = InitialM
  /\ encodedText = <<>>
  /\ compressionRatio = 0
  /\ huffmanCodes = <<>>
  /\ frequencies = <<>>
  /\ effectPending = FALSE
  /\ pc = "queue"
  /\ text = <<>>
  /\ m = 0
  /\ pq = <<>>
  /\ root = NullNode
  /\ iter = 0
  /\ caller = "effect"
  /\ NoUpload

NextQueue ==
  \/ \E node \in QueueItems : QueueEnqueue(node)
  \/ QueueDequeue

SpecQueue == InitQueue /\ [][NextQueue]_vars

\* ------------------------------------------------------------ claim helpers
Done == pc = "idle" /\ ~effectPending

ValidM == 2..5

\* The symbols of a text, as node names.
SymbolsOf(t) == {<<t[i]>> : i \in 1..Len(t)}

IsPrefix(p, s) == Len(p) <= Len(s) /\ SubSeq(s, 1, Len(p)) = p

PrefixFree(table) ==
  \A i, j \in 1..Len(table) : i # j => ~IsPrefix(table[i][2], table[j][2])

\* Greedy decoding against a code table: a symbol is emitted each time the
\* digits consumed since the last symbol equal a code.
RECURSIVE decodeFrom(_, _, _)
decodeFrom(rest, cur, table) ==
  IF rest = <<>> THEN (IF cur = <<>> THEN <<>> ELSE <<<<"DecodeError">>>>)
  ELSE LET now == Append(cur, Head(rest)) IN
    IF \E i \in 1..Len(table) : table[i][2] = now
    THEN <<table[CHOOSE i \in 1..Len(table) : table[i][2] = now][1]>>
         \o decodeFrom(Tail(rest), <<>>, table)
    ELSE decodeFrom(Tail(rest), now, table)

decode(payload, table) == decodeFrom(payload, <<>>, table)

\* All nodes of a tree.
RECURSIVE NodesOf(_)
NodesOf(node) ==
  {node} \cup UNION {NodesOf(node.children[i]) : i \in 1..Len(node.children)}

QueueNodes(nodes) == UNION {NodesOf(nodes[i]) : i \in 1..Len(nodes)}

\* The padding leaves among a set of nodes of the running call.
PaddingNodes(nodes) ==
  {n \in nodes : /\ n.children = <<>>
                 /\ n.data # InternalName
                 /\ n.data \notin SymbolsOf(text)}

InternalNodes(nodes) == {n \in nodes : n.data = InternalName}

CallNodes == QueueNodes(pq) \cup (IF root = NullNode THEN {} ELSE NodesOf(root))

RECURSIVE Pow(_, _)
Pow(b, e) == IF e = 0 THEN 1 ELSE b * Pow(b, e - 1)

SetMin(S) == CHOOSE x \in S : \A y \in S : x <= y

\* The total lengths sum f[i] * len[i] of the code-length profiles len[i] in
\* 1..L that satisfy Kraft's inequality sum M^(-len[i]) <= 1, i.e. of the
\* prefix-free codes on M digits. budget is what is left of M^L after the
\* symbols before i.
RECURSIVE achievableCosts(_, _, _, _, _)
achievableCosts(f, i, budget, M, L) ==
  IF i > Len(f) THEN {0}
  ELSE UNION {{f[i] * l + c :
                 c \in achievableCosts(f, i + 1, budget - Pow(M, L - l), M, L)} :
              l \in {k \in 1..L : Pow(M, L - k) <= budget}}

\* No code of an optimal prefix-free code for N symbols is longer than N - 1
\* digits (and a single symbol needs one digit).
OptimalLength(freqMap, M) ==
  LET f == [i \in 1..Len(freqMap) |-> freqMap[i][2]]
      L == IF Len(f) <= 1 THEN 1 ELSE Len(f) - 1
  IN SetMin(achievableCosts(f, 1, Pow(M, L), M, L))

RECURSIVE TotalLength(_, _, _)
TotalLength(freqMap, codes, i) ==
  IF i > Len(freqMap) THEN 0
  ELSE freqMap[i][2] * Len(MapGet(codes, freqMap[i][1], <<>>))
       + TotalLength(freqMap, codes, i + 1)

\* ------------------------------------------------------------------- claims
\* C1: for a non-empty input and M in 2..5, no code of the code table is a
\* prefix of another code of the table.
C1_PrefixFree ==
  (Done /\ inputText # <<>> /\ mValue \in ValidM) => PrefixFree(huffmanCodes)

C1_Witness ==
  /\ Done /\ mValue = 3 /\ Len(huffmanCodes) >= 4
  /\ \E i \in 1..Len(huffmanCodes) : Len(huffmanCodes[i][2]) = 2
  /\ \E i \in 1..Len(huffmanCodes) : Len(huffmanCodes[i][2]) = 1

\* C2: for a non-empty input and M in 2..5, greedily decoding the payload
\* against the code table gives back the input, symbol for symbol.
C2_RoundTrip ==
  (Done /\ inputText # <<>> /\ mValue \in ValidM) =>
    decode(encodedText, huffmanCodes) = [i \in 1..Len(inputText) |-> <<inputText[i]>>]

C2_Witness ==
  /\ Done /\ mValue = 2 /\ Len(inputText) >= 6
  /\ Cardinality(SymbolsOf(inputText)) >= 3
  /\ Len(encodedText) > Len(inputText)
  /\ decode(encodedText, huffmanCodes) = [i \in 1..Len(inputText) |-> <<inputText[i]>>]

\* C3: the code table has entries only for symbols of the input, none for a
\* padding node, and every padding node has weight 0.
C3_NoDummyInTable ==
  /\ (Done /\ inputText # <<>>) => MapKeys(huffmanCodes) \subseteq SymbolsOf(inputText)
  /\ (pc \in {"loop", "ret"}) => \A n \in PaddingNodes(CallNodes) : n.freq = 0

\* C4: for a non-empty input and M in 2..5, each distinct symbol of the input
\* has exactly one entry, a non-empty string of digits in 0..M-1.
C4_OneCodePerSymbol ==
  (Done /\ inputText # <<>> /\ mValue \in ValidM) =>
    \A s \in SymbolsOf(inputText) :
      /\ Cardinality({i \in 1..Len(huffmanCodes) : huffmanCodes[i][1] = s}) = 1
      /\ MapGet(huffmanCodes, s, <<>>) # <<>>
      /\ \A k \in 1..Len(MapGet(huffmanCodes, s, <<>>)) :
           \E d \in 0..(mValue - 1) :
             MapGet(huffmanCodes, s, <<>>)[k] = DigitChars[d + 1]

C4_Witness ==
  /\ Done /\ mValue = 4 /\ Cardinality(SymbolsOf(inputText)) = 5
  /\ \E i \in 1..Len(huffmanCodes) : huffmanCodes[i][2] = <<"3">>

\* C5: for M in 2..5 the total encoded length (sum of count x code length)
\* is the least total length of any prefix-free code on M digits.
C5_Optimal ==
  (Done /\ inputText # <<>> /\ mValue \in ValidM) =>
    /\ Len(encodedText) = TotalLength(frequencies, huffmanCodes, 1)
    /\ TotalLength(frequencies, huffmanCodes, 1) = OptimalLength(frequencies, mValue)

C5_Witness ==
  /\ Done /\ mValue = 3 /\ Len(frequencies) = 4
  /\ \E i, j \in 1..Len(frequencies) : frequencies[i][2] = 1 /\ frequencies[j][2] = 2
  /\ Len(encodedText) = OptimalLength(frequencies, mValue)
  /\ Len(encodedText) > Len(inputText)

\* C6: for two or more symbols and M >= 2 every merge takes exactly M nodes
\* (the queue holds at least M before each merge), and every internal node,
\* the root included, has exactly M children.
C6_ExactlyMChildren ==
  (pc \in {"loop", "ret"} /\ m >= 2) =>
    /\ (pc = "loop" /\ Len(pq) > 1) =>
         (Len(pq) >= m /\ numNodesOf(m, Len(pq)) = m)
    /\ \A n \in InternalNodes(CallNodes) : Len(n.children) = m

C6_Witness ==
  /\ pc = "ret" /\ m = 3 /\ iter = 2
  /\ PaddingNodes(NodesOf(root)) # {}
  /\ Len(root.children) = 3

\* C7: for N >= 2 and M >= 2 calculateRequiredDummies(N, M) is a d in 0..M-2
\* with (N + d - 1) mod (M - 1) = 0: 0 when (N-1) mod (M-1) = 0, else
\* (M-1) - ((N-1) mod (M-1)); the queue the merges start from has N + d leaves.
C7_Padding ==
  /\ \A N \in 2..(3 * MaxM), M \in 2..MaxM :
       LET d == calculateRequiredDummies(N, M) IN
         /\ d # NaN
         /\ d[1] \in 0..(M - 2)
         /\ (N + d[1] - 1) % (M - 1) = 0
         /\ d[1] = IF (N - 1) % (M - 1) = 0 THEN 0
                   ELSE (M - 1) - ((N - 1) % (M - 1))
  /\ (pc = "loop" /\ iter = 0 /\ m >= 2) =>
       LET N == Cardinality(SymbolsOf(text)) IN
         /\ Len(pq) = N + calculateRequiredDummies(N, m)[1]
         /\ (Len(pq) - 1) % (m - 1) = 0

C7_Witness ==
  /\ pc = "loop" /\ iter = 0 /\ m = 4
  /\ Cardinality(SymbolsOf(text)) = 5
  /\ Len(pq) = 7

\* C8: once an empty input has been processed, the code table, the frequency
\* table, the payload and the ratio are the empty/zero ones.
C8_EmptyInputClears ==
  (Done /\ inputText = <<>>) =>
    /\ encodedText = <<>>
    /\ huffmanCodes = <<>>
    /\ frequencies = <<>>
    /\ compressionRatio = 0

\* C9: generateMaryTree never runs an iteration of its merge loop with M < 2.
C9_InvalidMRejected ==
  (pc = "loop" /\ iter > 0) => m >= 2

\* C10: for M >= 2 the merge loop terminates: each iteration makes the queue
\* strictly smaller (by M - 1) and leaves at least one node, so the number of
\* iterations is bounded by the initial queue size; the loop is left with
\* exactly one node in the queue, and that node is returned as the root.
C10_Terminates ==
  /\ [](pc = "loop" /\ m >= 2 =>
          /\ Len(pq) >= 1
          /\ iter * (m - 1) + Len(pq) =
               Cardinality(SymbolsOf(text))
                 + calculateRequiredDummies(Cardinality(SymbolsOf(text)), m)[1])
  /\ [][(pc = "loop" /\ m >= 2) =>
          /\ pc' = "loop" => (Len(pq') < Len(pq) /\ Len(pq') >= 1)
          /\ pc' = "ret" => (Len(pq) = 1 /\ root' = pq[1] /\ pq' = <<>>)]_vars

C10_Witness ==
  /\ pc = "ret" /\ m = 2 /\ iter = 4
  /\ root.data = InternalName

\* C11: the record exported by a file upload round-trips: decoding its
\* embedded digit string with its embedded code table gives the uploaded text.
C11_ExportRoundTrips ==
  compressedFile # None =>
    decode(compressedFile[1].encodedData, compressedFile[1].huffmanCodes)
      = [i \in 1..Len(FileContent(compressedFile[1].originalFileName)) |->
           <<FileContent(compressedFile[1].originalFileName)[i]>>]

\* C12: an input of one distinct symbol repeated n times gives, for M >= 2,
\* a single-leaf tree without any merge, the table {symbol: "0"}, the payload
\* "0" n times and the ratio 87.50.
C12_SingleSymbol ==
  /\ (pc = "ret" /\ Cardinality(SymbolsOf(text)) = 1 /\ m >= 2) =>
       /\ root = [data |-> <<text[1]>>, freq |-> Len(text), children |-> <<>>]
       /\ iter = 0
  /\ (Done /\ Cardinality(SymbolsOf(inputText)) = 1 /\ mValue >= 2) =>
       /\ huffmanCodes = <<<<<<inputText[1]>>, <<"0">>>>>>
       /\ encodedText = [i \in 1..Len(inputText) |-> "0"]
       /\ compressionRatio = 8750

\* C13: the code table and the payload shown after a run depend on the input
\* and M only, not on the application state the run started from: they are
\* those of a run from the freshly started application.
C13_Deterministic ==
  Done =>
    IF inputText = <<>>
    THEN huffmanCodes = <<>> /\ encodedText = <<>>
    ELSE LET codes == generateCodes(
                        generateMaryTree(build, calculateFrequencies(inputText),
                                         mValue), <<>>, <<>>)
         IN /\ huffmanCodes = codes
            /\ encodedText = encodeText(inputText, codes)

\* C14: for a non-empty input, original = 8 x number of symbols, compressed =
\* number of payload digits = sum of count x code length, and the ratio is
\* (original - compressed) / original x 100 to the nearest hundredth.
C14_Statistics ==
  (Done /\ inputText # <<>>) =>
    LET original == 8 * Len(inputText)
        compressed == Len(encodedText)
        error == compressionRatio * original - (original - compressed) * 10000
    IN /\ originalSize(inputText) = original
       /\ compressedSize(encodedText) = compressed
       /\ compressed = TotalLength(frequencies, huffmanCodes, 1)
       /\ 2 * error <= original /\ -2 * error <= original

\* Number of occurrences of a character in a text.
CountOf(t, c) == Cardinality({i \in 1..Len(t) : t[i] = c})

\* The paths of child indices (0-based) from a node to its leaves named d.
RECURSIVE PathsTo(_, _)
PathsTo(node, d) ==
  IF node.children = <<>>
  THEN (IF node.data = d THEN {<<>>} ELSE {})
  ELSE UNION {{<<i - 1>> \o p : p \in PathsTo(node.children[i], d)} :
                i \in 1..Len(node.children)}

\* A path written with one digit per child index.
PathDigits(path) == [k \in 1..Len(path) |-> DigitChars[path[k] + 1]]

\* Number of leaves named d in a tree, and in the trees of a queue.
RECURSIVE LeafCount(_, _)
RECURSIVE LeafCountIn(_, _, _)
LeafCount(node, d) ==
  IF node.children = <<>>
  THEN (IF node.data = d THEN 1 ELSE 0)
  ELSE LeafCountIn(node.children, d, 1)

LeafCountIn(nodes, d, i) ==
  IF i > Len(nodes) THEN 0
  ELSE LeafCount(nodes[i], d) + LeafCountIn(nodes, d, i + 1)

RECURSIVE SumFreq(_, _)
SumFreq(nodes, i) ==
  IF i > Len(nodes) THEN 0 ELSE nodes[i].freq + SumFreq(nodes, i + 1)

\* C15: for M in 2..5, a symbol that occurs strictly more often than another
\* never gets a strictly longer code word.
C15_Monotone ==
  (Done /\ inputText # <<>> /\ mValue \in ValidM) =>
    \A x, y \in SymbolsOf(inputText) :
      CountOf(inputText, x[1]) > CountOf(inputText, y[1]) =>
        Len(MapGet(huffmanCodes, x, <<>>)) <= Len(MapGet(huffmanCodes, y, <<>>))

C15_Witness ==
  /\ Done /\ mValue = 2
  /\ \E x, y \in SymbolsOf(inputText) :
       /\ CountOf(inputText, x[1]) > CountOf(inputText, y[1])
       /\ MapHas(huffmanCodes, x) /\ MapHas(huffmanCodes, y)
       /\ Len(MapGet(huffmanCodes, x, <<>>)) < Len(MapGet(huffmanCodes, y, <<>>))

\* C16: after any sequence of enqueue and dequeue calls the queue's nodes are
\* in ascending weight order with equal weights in data-key order, and a
\* dequeue call removes and returns the first node, one of minimum weight.
C16_QueueOrdered ==
  /\ [](\A i, j \in 1..Len(pq) :
          i < j => \/ pq[i].freq < pq[j].freq
                   \/ /\ pq[i].freq = pq[j].freq
                      /\ localeCompare(pq[i].data, pq[j].data) <= 0)
  /\ [][Len(pq') < Len(pq) =>
          /\ root' = pq[1]
          /\ pq' = Tail(pq)
          /\ \A k \in 1..Len(pq) : root'.freq <= pq[k].freq]_vars

C16_Witness ==
  /\ pc = "queue" /\ Len(pq) = 2
  /\ root # NullNode
  /\ pq[1].freq = pq[2].freq /\ pq[1].data # pq[2].data
  /\ root.freq < pq[1].freq

C18_ChildOrderAndPath ==
  /\ [](pc \in {"loop", "ret"} =>
          \A n \in InternalNodes(CallNodes) :
            \A i, j \in 1..Len(n.children) :
              i < j => n.children[i].freq <= n.children[j].freq)
  /\ [][(pc = "loop" /\ pc' = "loop" /\ m >= 2) =>
          \E k \in 1..Len(pq') :
            pq'[k].children = SubSeq(pq, 1, m)]_vars
  /\ [](pc = "ret" =>
          \A s \in SymbolsOf(text) :
            /\ Cardinality(PathsTo(root, s)) = 1
            /\ \A p \in PathsTo(root, s) :
                 PathDigits(p) = MapGet(generateCodes(root, <<>>, <<>>), s, <<>>))

\* C18 amended: the same, the code being the path for inputs of two or more
\* distinct symbols; the single leaf of a one-symbol input has the empty path
\* and the code "0".
C18_ChildOrderAndPathAmended ==
  /\ [](pc \in {"loop", "ret"} =>
          \A n \in InternalNodes(CallNodes) :
            \A i, j \in 1..Len(n.children) :
              i < j => n.children[i].freq <= n.children[j].freq)
  /\ [][(pc = "loop" /\ pc' = "loop" /\ m >= 2) =>
          \E k \in 1..Len(pq') :
            pq'[k].children = SubSeq(pq, 1, m)]_vars
  /\ [](pc = "ret" =>
          \A s \in SymbolsOf(text) :
            LET code == MapGet(generateCodes(root, <<>>, <<>>), s, <<>>) IN
              /\ Cardinality(PathsTo(root, s)) = 1
              /\ IF Cardinality(SymbolsOf(text)) >= 2
                 THEN \A p \in PathsTo(root, s) : PathDigits(p) = code
                 ELSE PathsTo(root, s) = {<<>>} /\ code = <<"0">>)

C18_Witness ==
  /\ pc = "ret" /\ m = 3
  /\ Len(root.children) = 3
  /\ root.children[1].freq < root.children[2].freq
  /\ root.children[2].freq < root.children[3].freq
  /\ \E s \in SymbolsOf(text) : \E p \in PathsTo(root, s) : Len(p) = 2

\* C19: an internal node's weight is the sum of its children's weights, the
\* leaf of a symbol weighs the symbol's frequency, and the root of the
\* finished tree weighs the number of symbols of the input.
C19_Weights ==
  (pc \in {"loop", "ret"}) =>
    /\ \A n \in InternalNodes(CallNodes) : n.freq = SumFreq(n.children, 1)
    /\ \A n \in CallNodes :
         (n.children = <<>> /\ n.data \in SymbolsOf(text)) =>
           n.freq = CountOf(text, n.data[1])
    /\ (pc = "ret" /\ root # NullNode) => root.freq = Len(text)

C19_Witness ==
  /\ pc = "ret" /\ iter = 2
  /\ root.data = InternalName
  /\ root.freq = 5
  /\ \E i \in 1..Len(root.children) :
       root.children[i].data = InternalName /\ root.children[i].freq = 3

\* C20: at every test of the merge loop each initial leaf (symbol or padding)
\* lies in exactly one subtree of the queue, exactly once, and the weights of
\* the queued nodes add up to the number of symbols of the input; the
\* finished tree holds every initial leaf exactly once.
C20_LeavesPartitioned ==
  LET initialLeaves ==
        SymbolsOf(text) \cup {n.data : n \in PaddingNodes(CallNodes)}
  IN /\ pc = "loop" =>
          /\ \A d \in initialLeaves : LeafCountIn(pq, d, 1) = 1
          /\ SumFreq(pq, 1) = Len(text)
     /\ (pc = "ret" /\ root # NullNode) =>
          \A d \in initialLeaves : LeafCount(root, d) = 1

C20_Witness ==
  /\ pc = "loop" /\ iter = 1 /\ m = 3
  /\ Len(pq) = 3
  /\ PaddingNodes(QueueNodes(pq)) # {}
  /\ SumFreq(pq, 1) = 4

\* The rearrangements of a text.
Perms(t) ==
  {[i \in 1..Len(t) |-> t[f[i]]] :
     f \in {g \in [1..Len(t) -> 1..Len(t)] :
              \A i, j \in 1..Len(t) : g[i] = g[j] => i = j}}

\* The entries of a Map, without their order.
Entries(map) == {map[i] : i \in 1..Len(map)}

\* C21: two inputs that are rearrangements of each other give, for the same
\* M, the same tree and the same code table (as a set of entries).
C21_PermutationInvariant ==
  pc = "ret" =>
    \A t \in Perms(text) :
      LET tree == generateMaryTree(build, calculateFrequencies(t), m) IN
        /\ tree = root
        /\ Entries(generateCodes(tree, <<>>, <<>>))
             = Entries(generateCodes(root, <<>>, <<>>))

\* Number of leaves of symbols of the text in a tree.
RECURSIVE RealLeafCount(_)
RECURSIVE RealLeafCountIn(_, _)
RealLeafCount(node) ==
  IF node.children = <<>>
  THEN (IF node.data \in SymbolsOf(text) THEN 1 ELSE 0)
  ELSE RealLeafCountIn(node.children, 1)

RealLeafCountIn(nodes, i) ==
  IF i > Len(nodes) THEN 0
  ELSE RealLeafCount(nodes[i]) + RealLeafCountIn(nodes, i + 1)

\* C22: for M >= 2 the first merge takes all d padding nodes: they are the
\* children 0..d-1 of the first internal node, whose other children are at
\* least two leaves of symbols; every internal node has at least two leaves
\* of symbols in its subtree.
C22_DummiesInFirstMerge ==
  /\ [][(pc = "loop" /\ iter = 0 /\ pc' = "loop" /\ m >= 2) =>
          LET d == Cardinality(PaddingNodes(QueueNodes(pq)))
              old == {pq[k] : k \in 1..Len(pq)}
              first == pq'[CHOOSE k \in 1..Len(pq') : pq'[k] \notin old]
          IN /\ first.data = InternalName
             /\ \A i \in 1..Len(first.children) :
                  IF i <= d
                  THEN first.children[i] \in PaddingNodes(QueueNodes(pq))
                  ELSE /\ first.children[i].children = <<>>
                       /\ first.children[i].data \in SymbolsOf(text)
             /\ Len(first.children) - d >= 2
             /\ PaddingNodes(QueueNodes(pq')) = PaddingNodes(NodesOf(first))]_vars
  /\ []((pc \in {"loop", "ret"} /\ m >= 2) =>
          \A n \in InternalNodes(CallNodes) : RealLeafCount(n) >= 2)

C22_Witness ==
  /\ pc = "loop" /\ iter = 1 /\ m = 4
  /\ Len(pq) = 4
  /\ \E k \in 1..Len(pq) :
       /\ pq[k].data = InternalName
       /\ pq[k].children[1] \in PaddingNodes(QueueNodes(pq))
       /\ pq[k].children[2] \in PaddingNodes(QueueNodes(pq))
       /\ pq[k].children[3].data \in SymbolsOf(text)
       /\ pq[k].children[4].data \in SymbolsOf(text)

\* C23: whenever no effect and no file-read callback is pending, the payload
\* shown is the one obtained by encoding the current text with the current M.
C23_DisplayedPayloadCurrent ==
  (Quiet /\ reader = None) =>
    encodedText =
      IF inputText = <<>> THEN <<>>
      ELSE encodeText(inputText,
                      generateCodes(
                        generateMaryTree(build, calculateFrequencies(inputText),
                                         mValue), <<>>, <<>>))

====
